---- MODULE Spec2Model ----
(***************************************************************************)
(* sshm: the command layer (cmd/info.go, cmd/root.go) over the SSH config  *)
(* registry (internal/config).                                             *)
(*                                                                         *)
(* Strings the code inspects (names, patterns, directive values, error     *)
(* messages, paths) are sequences of one-character strings, so that        *)
(* TrimSpace, ToLower, HasPrefix, Contains, Atoi and glob matching are     *)
(* computed and not assumed.  A nil pointer / absent optional is <<>>, a   *)
(* present one is <<v>>.                                                   *)
(***************************************************************************)
EXTENDS Integers, Sequences, FiniteSets, TLC

VARIABLES
    configFile,   \* the --config flag (root.go: var configFile); <<>> = unset
    file,         \* the file that configFile (or the default path) resolves to
    op,           \* which command this process ran: "none" before it ran
    arg,          \* the inputs the command was given
    out,          \* the documents written to the info command's writer
    status,       \* exit status of the process: <<>> while it has not exited, else <<code>>
    completions,  \* completion list returned by a ValidArgsFunction
    directive,    \* cobra directive returned by a ValidArgsFunction
    hostFound,    \* connectToHost: result of the quick existence check
    effects       \* what the process did outside itself, in order: history
                  \* records, ssh runs, TUI starts

vars == <<configFile, file, op, arg, out, status, completions, directive, hostFound,
          effects>>

(***************************************************************************)
(* Bounds                                                                  *)
(***************************************************************************)
MaxLines == 4

(***************************************************************************)
(* Strings                                                                 *)
(***************************************************************************)
Null == <<>>
Some(v) == <<v>>

IsSpace(c) == c \in {" ", "\t", "\n", "\r"}

RECURSIVE TrimLeft(_)
TrimLeft(s) == IF s # <<>> /\ IsSpace(Head(s)) THEN TrimLeft(Tail(s)) ELSE s

RECURSIVE TrimRight(_)
TrimRight(s) ==
    IF s # <<>> /\ IsSpace(s[Len(s)]) THEN TrimRight(SubSeq(s, 1, Len(s) - 1)) ELSE s

\* strings.TrimSpace
TrimSpace(s) == TrimRight(TrimLeft(s))

LowerOf ==
    [A |-> "a", B |-> "b", C |-> "c", D |-> "d", E |-> "e", F |-> "f", G |-> "g",
     H |-> "h", I |-> "i", J |-> "j", K |-> "k", L |-> "l", M |-> "m", N |-> "n",
     O |-> "o", P |-> "p", Q |-> "q", R |-> "r", S |-> "s", T |-> "t", U |-> "u",
     V |-> "v", W |-> "w", X |-> "x", Y |-> "y", Z |-> "z"]

\* strings.ToLower
ToLower(s) == [i \in 1..Len(s) |-> IF s[i] \in DOMAIN LowerOf THEN LowerOf[s[i]] ELSE s[i]]

\* strings.HasPrefix
HasPrefix(s, prefix) == Len(prefix) <= Len(s) /\ SubSeq(s, 1, Len(prefix)) = prefix

\* strings.Contains
Contains(s, substr) ==
    \E i \in 0..(Len(s) - Len(substr)) : SubSeq(s, i + 1, i + Len(substr)) = substr

DigitChars == <<"0", "1", "2", "3", "4", "5", "6", "7", "8", "9">>

IsDigit(c) == \E i \in 1..Len(DigitChars) : DigitChars[i] = c

DigitVal(c) == (CHOOSE i \in 1..Len(DigitChars) : DigitChars[i] = c) - 1

RECURSIVE DecimalValue(_)
DecimalValue(ds) ==
    IF ds = <<>> THEN 0
    ELSE DecimalValue(SubSeq(ds, 1, Len(ds) - 1)) * 10 + DigitVal(ds[Len(ds)])

\* strconv.Atoi: an optional sign, then one or more decimal digits.  (The
\* range error needs 19 digits or more; directive values here are shorter.)
Atoi(s) ==
    LET signed == s # <<>> /\ Head(s) \in {"+", "-"}
        body   == IF signed THEN Tail(s) ELSE s
    IN  IF body = <<>> \/ \E i \in 1..Len(body) : ~IsDigit(body[i])
        THEN [err |-> TRUE, val |-> 0]
        ELSE [err |-> FALSE,
              val |-> IF signed /\ Head(s) = "-" THEN 0 - DecimalValue(body)
                      ELSE DecimalValue(body)]

NotFoundText == <<"n", "o", "t", " ", "f", "o", "u", "n", "d">>

(***************************************************************************)
(* The config file: raw lines                                              *)
(***************************************************************************)
\* A raw line is [kind, keyword, words]: kind "blank", "comment" (keyword
\* "Tags" for the tool's tag comment, words its tags) or "kv" (a keyword
\* followed by whitespace-separated words).
HostLine(pats) == [kind |-> "kv", keyword |-> "Host", words |-> pats]
DirLine(kw, ws) == [kind |-> "kv", keyword |-> kw, words |-> ws]

LinePool ==
    { HostLine(<< <<"a", "b">> >>),                      \* Host ab
      HostLine(<< <<"!", "A", "b">>, <<"*", "b">> >>),   \* Host !Ab *b
      HostLine(<< <<"A", "b">>, <<"b">> >>),             \* Host Ab b
      DirLine("User", << <<"s">> >>),                    \* User s
      DirLine("Port", << <<"7">> >>),                    \* Port 7
      DirLine("Port", << <<"x">> >>) }                   \* Port x

RECURSIVE SeqsUpTo(_, _)
SeqsUpTo(S, n) ==
    IF n = 0 THEN { <<>> }
    ELSE LET shorter == SeqsUpTo(S, n - 1)
         IN  shorter \cup { Append(s, x) : s \in { t \in shorter : Len(t) = n - 1 }, x \in S }

Files ==
    { [state |-> "ok", lines |-> ls] : ls \in SeqsUpTo(LinePool, MaxLines) }
    \cup { [state |-> st, lines |-> <<>>] : st \in {"missing", "denied"} }

\* A second family of files, with a directive whose value is empty.
FlowLinePool ==
    { HostLine(<< <<"a", "b">> >>),                      \* Host ab
      HostLine(<< <<"!", "A", "b">>, <<"*", "b">> >>),   \* Host !Ab *b
      DirLine("User", << <<"s">> >>),                    \* User s
      DirLine("User", <<>>) }                            \* User

FlowFiles ==
    { [state |-> "ok", lines |-> ls] : ls \in SeqsUpTo(FlowLinePool, MaxLines) }
    \cup { [state |-> st, lines |-> <<>>] : st \in {"missing", "denied"} }

DefaultPath == <<"~", "/", "c">>
Paths == { <<>>, <<"/", "c">>, <<"/">> \o NotFoundText }

\* Host names asked for on the command line.
QueryNames == { <<"a", "b">>, <<"A", "b">>, <<"*", "b">> }
\* Completion requests: the arguments already given and the partial argument.
CompletionInputs ==
    { [args |-> <<>>, toComplete |-> t] : t \in { <<>>, <<"A">>, <<"b">> } }
    \cup { [args |-> << <<"a", "b">> >>, toComplete |-> <<>>] }

(***************************************************************************)
(* internal/config: Line Classifier, Block Assembler, Merge Engine and     *)
(* Host Registry                                                           *)
(***************************************************************************)
IsHostKeyword(kw) == kw \in {"Host", "host", "HOST"}
IsTagsKeyword(kw) == kw \in {"Tags", "tags", "TAGS"}

\* Line Classifier: Blank, Comment, TagComment, HostDecl or Directive.  A
\* directive's value is the remainder of the line, trimmed: its words joined
\* by one space each.
RECURSIVE JoinWords(_)
JoinWords(ws) ==
    IF ws = <<>> THEN <<>>
    ELSE IF Len(ws) = 1 THEN ws[1]
    ELSE ws[1] \o <<" ">> \o JoinWords(Tail(ws))

Classify(l) ==
    IF l.kind = "blank" THEN [kind |-> "Blank", keyword |-> "", value |-> <<>>, list |-> <<>>]
    ELSE IF l.kind = "comment" THEN
        LET tags == SelectSeq(l.words, LAMBDA t : TrimSpace(t) # <<>>)
        IN  IF IsTagsKeyword(l.keyword) /\ tags # <<>>
            THEN [kind |-> "TagComment", keyword |-> "", value |-> <<>>, list |-> tags]
            ELSE [kind |-> "Comment", keyword |-> "", value |-> <<>>, list |-> <<>>]
    ELSE IF IsHostKeyword(l.keyword) THEN
        IF l.words = <<>>
        THEN [kind |-> "Comment", keyword |-> "", value |-> <<>>, list |-> <<>>]
        ELSE [kind |-> "HostDecl", keyword |-> l.keyword, value |-> <<>>, list |-> l.words]
    ELSE [kind |-> "Directive", keyword |-> l.keyword,
          value |-> TrimSpace(JoinWords(l.words)), list |-> <<>>]

\* Block Assembler: the RawBlocks of a file, in file order.
RECURSIVE AssembleFrom(_, _, _, _)
AssembleFrom(lines, i, blocks, pending) ==
    IF i > Len(lines) THEN blocks
    ELSE LET c == Classify(lines[i]) IN
         IF c.kind = "TagComment" THEN AssembleFrom(lines, i + 1, blocks, c.list)
         ELSE IF c.kind \in {"Blank", "Comment"} THEN AssembleFrom(lines, i + 1, blocks, pending)
         ELSE IF c.kind = "HostDecl" THEN
              AssembleFrom(lines, i + 1,
                           Append(blocks, [line |-> i, patterns |-> c.list,
                                           directives |-> <<>>, tags |-> pending]),
                           <<>>)
         ELSE IF blocks = <<>> THEN AssembleFrom(lines, i + 1, blocks, <<>>)
         ELSE LET n == Len(blocks)
                  d == [keyword |-> c.keyword, value |-> c.value, line |-> i]
              IN  AssembleFrom(lines, i + 1,
                               [blocks EXCEPT ![n].directives = Append(@, d)], <<>>)

Assemble(lines) == AssembleFrom(lines, 1, <<>>, <<>>)

\* Glob matching of one pattern: * any run, ? exactly one character.
RECURSIVE Glob(_, _)
Glob(p, s) ==
    IF p = <<>> THEN s = <<>>
    ELSE IF Head(p) = "*" THEN Glob(Tail(p), s) \/ (s # <<>> /\ Glob(p, Tail(s)))
    ELSE IF s = <<>> THEN FALSE
    ELSE (Head(p) = "?" \/ Head(p) = Head(s)) /\ Glob(Tail(p), Tail(s))

IsNegated(p) == p # <<>> /\ Head(p) = "!"

\* Literal pattern: no glob metacharacter and no leading "!".
IsLiteral(p) == p # <<>> /\ ~IsNegated(p) /\ \A i \in 1..Len(p) : p[i] \notin {"*", "?"}

\* A block applies to a name when a positive pattern matches it and no
\* negated pattern does.
BlockMatches(b, name) ==
    /\ \E k \in 1..Len(b.patterns) : ~IsNegated(b.patterns[k]) /\ Glob(b.patterns[k], name)
    /\ ~\E k \in 1..Len(b.patterns) :
            IsNegated(b.patterns[k]) /\ Glob(Tail(b.patterns[k]), name)

DeclaresLiterally(b, name) ==
    IsLiteral(name) /\ \E k \in 1..Len(b.patterns) : b.patterns[k] = name

ModelledKeywords ==
    {"HostName", "User", "Port", "IdentityFile", "ProxyJump", "ProxyCommand",
     "RemoteCommand", "RequestTTY"}

\* Every field slot starts absent.
UnsetFields == [kw \in ModelledKeywords |-> Null]

\* Mutant of MergeDirectives: a later occurrence overwrites the slot.
RECURSIVE MergeDirectives_lastWins(_, _)
MergeDirectives_lastWins(dirs, acc) ==
    IF dirs = <<>> THEN acc
    ELSE LET d == Head(dirs)
         IN  MergeDirectives_lastWins(Tail(dirs),
                 IF d.keyword \in ModelledKeywords
                 THEN [acc EXCEPT ![d.keyword] = Some(d.value)]
                 ELSE acc)

\* One block's directives, in order: a slot is populated only while absent,
\* so the first occurrence of a keyword wins.
RECURSIVE MergeDirectives(_, _)
MergeDirectives(dirs, acc) ==
    IF dirs = <<>> THEN acc
    ELSE LET d == Head(dirs)
         IN  MergeDirectives(Tail(dirs),
                 IF d.keyword \in ModelledKeywords /\ acc[d.keyword] = Null
                 THEN [acc EXCEPT ![d.keyword] = Some(d.value)]
                 ELSE acc)

\* Merge Engine: fold over the matching blocks in file order, never
\* overwriting a present slot.
RECURSIVE MergeBlocks(_, _, _)
MergeBlocks(blocks, name, acc) ==
    IF blocks = <<>> THEN acc
    ELSE MergeBlocks(Tail(blocks), name,
             IF BlockMatches(Head(blocks), name)
             THEN MergeDirectives(Head(blocks).directives, acc)
             ELSE acc)

\* The home block: the first block whose pattern list holds the name verbatim.
RECURSIVE HomeBlock(_, _)
HomeBlock(blocks, name) ==
    IF blocks = <<>> THEN Null
    ELSE IF DeclaresLiterally(Head(blocks), name) THEN Some(Head(blocks))
    ELSE HomeBlock(Tail(blocks), name)

\* An unset field of config.SSHHost is the empty string.
StringOf(opt) == IF opt = Null THEN <<>> ELSE opt[1]

\* config.SSHHost for a literal name with home block hb.
BuildHost(blocks, hb, name, path) ==
    LET m == MergeBlocks(blocks, name, UnsetFields) IN
    [Name          |-> name,
     Hostname      |-> StringOf(m["HostName"]),
     User          |-> StringOf(m["User"]),
     Port          |-> StringOf(m["Port"]),
     Identity      |-> StringOf(m["IdentityFile"]),
     ProxyJump     |-> StringOf(m["ProxyJump"]),
     ProxyCommand  |-> StringOf(m["ProxyCommand"]),
     Options       |-> <<>>,
     Tags          |-> hb.tags,
     RemoteCommand |-> StringOf(m["RemoteCommand"]),
     RequestTTY    |-> StringOf(m["RequestTTY"]),
     SourceFile    |-> path,
     LineNumber    |-> hb.line]

\* The file a path names.  Each process works on one path.
ReadFile(path) == file

NoSuchFileText ==
    <<"n", "o", " ", "s", "u", "c", "h", " ", "f", "i", "l", "e">>
PermissionDeniedText ==
    <<"p", "e", "r", "m", "i", "s", "s", "i", "o", "n", " ", "d", "e", "n", "i", "e", "d">>

\* ParseError for a file that cannot be opened: the path and the reason.
ParseError(path) ==
    [kind |-> "ParseError",
     msg  |-> <<"o", "p", "e", "n", " ">> \o path \o <<":", " ">>
              \o (IF ReadFile(path).state = "missing" THEN NoSuchFileText
                  ELSE PermissionDeniedText)]

NotFoundError(name) ==
    [kind |-> "NotFoundError",
     msg  |-> <<"h", "o", "s", "t", " ">> \o name \o <<" ">> \o NotFoundText]

\* Get: the merged record of one literal name.
GetSSHHostFromFile(hostName, configPath) ==
    LET f == ReadFile(configPath) IN
    IF f.state # "ok" THEN [host |-> Null, err |-> Some(ParseError(configPath))]
    ELSE LET blocks == Assemble(f.lines)
             hb     == HomeBlock(blocks, hostName)
         IN  IF hb = Null THEN [host |-> Null, err |-> Some(NotFoundError(hostName))]
             ELSE [host |-> Some(BuildHost(blocks, hb[1], hostName, configPath)),
                   err  |-> Null]

GetSSHHost(hostName) == GetSSHHostFromFile(hostName, DefaultPath)

\* Names of the registry: literal patterns in order of first declaration,
\* each once.
RECURSIVE Dedup(_, _)
Dedup(s, seen) ==
    IF s = <<>> THEN <<>>
    ELSE IF Head(s) \in seen THEN Dedup(Tail(s), seen)
    ELSE <<Head(s)>> \o Dedup(Tail(s), seen \cup {Head(s)})

RECURSIVE LiteralNames(_)
LiteralNames(blocks) ==
    IF blocks = <<>> THEN <<>>
    ELSE SelectSeq(Head(blocks).patterns, IsLiteral) \o LiteralNames(Tail(blocks))

\* List: every known host, merged.
ParseSSHConfigFile(configPath) ==
    LET f == ReadFile(configPath) IN
    IF f.state # "ok" THEN [hosts |-> <<>>, err |-> Some(ParseError(configPath))]
    ELSE LET blocks == Assemble(f.lines)
             names  == Dedup(LiteralNames(blocks), {})
         IN  [hosts |-> [i \in 1..Len(names) |->
                            BuildHost(blocks, HomeBlock(blocks, names[i])[1],
                                      names[i], configPath)],
              err   |-> Null]

ParseSSHConfig == ParseSSHConfigFile(DefaultPath)

\* QuickExists: one scan of the lines, no block assembly and no merge.
QuickHostExistsInFile(hostName, configPath) ==
    LET f == ReadFile(configPath) IN
    IF f.state # "ok" THEN [found |-> FALSE, err |-> Some(ParseError(configPath))]
    ELSE [found |-> /\ IsLiteral(hostName)
                    /\ \E i \in 1..Len(f.lines) :
                          LET c == Classify(f.lines[i])
                          IN  c.kind = "HostDecl"
                              /\ \E k \in 1..Len(c.list) : c.list[k] = hostName,
          err   |-> Null]

QuickHostExists(hostName) == QuickHostExistsInFile(hostName, DefaultPath)

(***************************************************************************)
(* cmd/info.go                                                             *)
(***************************************************************************)
SchemaV1 == "sshm.info.v1"

\* maybeString: nil for a value that is empty after trimming.
maybeString(v) ==
    LET trimmed == TrimSpace(v)
    IN  IF trimmed = <<>> THEN Null ELSE Some(trimmed)

\* Mutant of maybePort: the Atoi error is dropped.
maybePort_ignoresError(v) ==
    LET trimmed == TrimSpace(v)
        parsed  == Atoi(trimmed)
    IN  IF trimmed = <<>> \/ parsed.err THEN [port |-> Null, err |-> FALSE]
        ELSE [port |-> Some(parsed.val), err |-> FALSE]

\* maybePort: (nil, nil) for an empty value, (nil, err) for a non-integer.
maybePort(v) ==
    LET trimmed == TrimSpace(v)
        parsed  == Atoi(trimmed)
    IN  IF trimmed = <<>> THEN [port |-> Null, err |-> FALSE]
        ELSE IF parsed.err THEN [port |-> Null, err |-> TRUE]
        ELSE [port |-> Some(parsed.val), err |-> FALSE]

\* json.Marshal of an infoResponse fails only on a Details RawMessage that
\* is not valid JSON; a nil RawMessage encodes as null.
MarshalFails(resp) ==
    \E i \in 1..Len(resp.error) :
        resp.error[i].details # Null /\ resp.error[i].details # <<"n", "u", "l", "l">>

InternalErrorDoc ==
    [schema |-> SchemaV1, ok |-> FALSE, hostname |-> <<>>, result |-> Null,
     error  |-> Some([code |-> "INTERNAL",
                      message |-> <<"m", "a", "r", "s", "h", "a", "l">>,
                      details |-> Null])]

\* writeInfoJSON: the writer after one document was appended to it.
writeInfoJSON(w, pretty, resp) ==
    IF MarshalFails(resp)
    THEN Append(w, [doc |-> InternalErrorDoc, indented |-> FALSE])
    ELSE Append(w, [doc |-> resp, indented |-> pretty])

InvalidPortText ==
    <<"i", "n", "v", "a", "l", "i", "d", " ", "p", "o", "r", "t">>

\* Mutant of runInfoLookupError: the error object is never attached.
runInfoLookupError_noError(w, pretty, resp, err) ==
    [out  |-> writeInfoJSON(w, pretty, resp),
     code |-> IF Contains(err.msg, NotFoundText) THEN 2 ELSE 1]

\* Mutant of runInfoLookupError: the text searched for is misspelt, so no
\* error is ever classified as not-found.
runInfoLookupError_neverNotFound(w, pretty, resp, err) ==
    [out  |-> writeInfoJSON(w, pretty,
                 [resp EXCEPT !.error = Some([code |-> "CONFIG_ERROR", message |-> err.msg,
                                              details |-> Null])]),
     code |-> 1]

\* runInfo, lookup failure: the error code and exit status of an error.
runInfoLookupError(w, pretty, resp, err) ==
    LET msg      == err.msg
        notFound == Contains(msg, NotFoundText)
        code     == IF notFound THEN 2 ELSE 1
        errCode  == IF notFound THEN "NOT_FOUND" ELSE "CONFIG_ERROR"
    IN  [out  |-> writeInfoJSON(w, pretty,
                     [resp EXCEPT !.error = Some([code |-> errCode, message |-> msg,
                                                  details |-> Null])]),
         code |-> code]

\* Mutant of runInfoPortError: the not-found status is returned.
runInfoPortError_status2(w, pretty, resp) ==
    [out  |-> writeInfoJSON(w, pretty,
                 [resp EXCEPT !.error = Some([code |-> "CONFIG_ERROR",
                                              message |-> InvalidPortText,
                                              details |-> Null])]),
     code |-> 2]

\* runInfo, the port of the host does not parse.
runInfoPortError(w, pretty, resp) ==
    [out  |-> writeInfoJSON(w, pretty,
                 [resp EXCEPT !.error = Some([code |-> "CONFIG_ERROR",
                                              message |-> InvalidPortText,
                                              details |-> Null])]),
     code |-> 1]

\* Mutant of runInfoResult: the source line is reported 0-based.
runInfoResult_lineOffByOne(host, hostnameArg, port) ==
    [canonical_name |-> host.Name,
     target         |-> [host     |-> hostnameArg,
                         hostname |-> maybeString(host.Hostname),
                         user     |-> maybeString(host.User),
                         port     |-> port],
     identity_file  |-> maybeString(host.Identity),
     proxy_jump     |-> maybeString(host.ProxyJump),
     proxy_command  |-> maybeString(host.ProxyCommand),
     options        |-> maybeString(host.Options),
     tags           |-> host.Tags,
     remote_command |-> maybeString(host.RemoteCommand),
     request_tty    |-> maybeString(host.RequestTTY),
     source         |-> Some([file |-> host.SourceFile, line |-> host.LineNumber - 1])]

\* runInfo, the infoResult of a host.
runInfoResult(host, hostnameArg, port) ==
    [canonical_name |-> host.Name,
     target         |-> [host     |-> hostnameArg,
                         hostname |-> maybeString(host.Hostname),
                         user     |-> maybeString(host.User),
                         port     |-> port],
     identity_file  |-> maybeString(host.Identity),
     proxy_jump     |-> maybeString(host.ProxyJump),
     proxy_command  |-> maybeString(host.ProxyCommand),
     options        |-> maybeString(host.Options),
     tags           |-> host.Tags,
     remote_command |-> maybeString(host.RemoteCommand),
     request_tty    |-> maybeString(host.RequestTTY),
     source         |-> Some([file |-> host.SourceFile, line |-> host.LineNumber])]

\* runInfo: the writer afterwards and the returned exit status.
runInfo(w, hostnameArg, cfgFile, pretty) ==
    LET resp == [schema |-> SchemaV1, ok |-> FALSE, hostname |-> hostnameArg,
                 result |-> Null, error |-> Null]
        got  == IF cfgFile # <<>> THEN GetSSHHostFromFile(hostnameArg, cfgFile)
                ELSE GetSSHHost(hostnameArg)
    IN  IF got.err # Null THEN runInfoLookupError(w, pretty, resp, got.err[1])
        ELSE LET host == got.host[1]
                 p    == maybePort(host.Port)
             IN  IF p.err THEN runInfoPortError(w, pretty, resp)
                 ELSE [out  |-> writeInfoJSON(w, pretty,
                                   [resp EXCEPT !.ok = TRUE,
                                                !.result = Some(runInfoResult(host, hostnameArg, p.port))]),
                       code |-> 0]

\* Mutant of FilterHosts: the host name is compared without lower-casing.
FilterHosts_caseSensitiveName(hosts, toComplete) ==
    LET toCompleteLower == ToLower(toComplete)
        names == [i \in 1..Len(hosts) |-> hosts[i].Name]
    IN  SelectSeq(names, LAMBDA n : HasPrefix(n, toCompleteLower))

\* Case-insensitive prefix filter over the hosts' names.
FilterHosts(hosts, toComplete) ==
    LET toCompleteLower == ToLower(toComplete)
        names == [i \in 1..Len(hosts) |-> hosts[i].Name]
    IN  SelectSeq(names, LAMBDA n : HasPrefix(ToLower(n), toCompleteLower))

\* infoCmd.ValidArgsFunction
infoValidArgs(args, toComplete) ==
    IF Len(args) # 0 THEN [completions |-> <<>>, directive |-> "ShellCompDirectiveNoFileComp"]
    ELSE LET parsed == IF configFile # <<>> THEN ParseSSHConfigFile(configFile)
                       ELSE ParseSSHConfig
         IN  IF parsed.err # Null
             THEN [completions |-> <<>>, directive |-> "ShellCompDirectiveError"]
             ELSE [completions |-> FilterHosts(parsed.hosts, toComplete),
                   directive   |-> "ShellCompDirectiveNoFileComp"]

(***************************************************************************)
(* cmd/root.go                                                             *)
(***************************************************************************)
\* RootCmd.ValidArgsFunction
rootValidArgs(args, toComplete) ==
    IF Len(args) # 0 THEN [completions |-> <<>>, directive |-> "ShellCompDirectiveNoFileComp"]
    ELSE LET parsed == IF configFile # <<>> THEN ParseSSHConfigFile(configFile)
                       ELSE ParseSSHConfig
         IN  IF parsed.err # Null
             THEN [completions |-> <<>>, directive |-> "ShellCompDirectiveNoFileComp"]
             ELSE [completions |-> FilterHosts(parsed.hosts, toComplete),
                   directive   |-> "ShellCompDirectiveNoFileComp"]

\* Mutant of connectCheck: an error of the existence check does not stop
\* the process.
connectCheck_ignoresError(hostName) ==
    LET q == IF configFile # <<>> THEN QuickHostExistsInFile(hostName, configFile)
             ELSE QuickHostExists(hostName)
    IN  IF q.err = Null /\ ~q.found THEN [found |-> FALSE, next |-> "exit", status |-> Some(1)]
        ELSE [found |-> TRUE, next |-> "checked", status |-> Null]

\* Mutant of connectCheck: the result of the check is not looked at.
connectCheck_ignoresFound(hostName) ==
    LET q == IF configFile # <<>> THEN QuickHostExistsInFile(hostName, configFile)
             ELSE QuickHostExists(hostName)
    IN  IF q.err # Null THEN [found |-> q.found, next |-> "fatal", status |-> Some(1)]
        ELSE [found |-> q.found, next |-> "checked", status |-> Null]

\* connectToHost, the existence check: what the check returned and how the
\* process goes on ("fatal": log.Fatalf, "exit": os.Exit(1), "checked").
connectCheck(hostName) ==
    LET q == IF configFile # <<>> THEN QuickHostExistsInFile(hostName, configFile)
             ELSE QuickHostExists(hostName)
    IN  IF q.err # Null THEN [found |-> q.found, next |-> "fatal", status |-> Some(1)]
        ELSE IF ~q.found THEN [found |-> FALSE, next |-> "exit", status |-> Some(1)]
        ELSE [found |-> TRUE, next |-> "checked", status |-> Null]

\* connectToHost, history: a record is added unless the history manager
\* cannot be initialised or the recording fails (both only warn).
connectHistory(eff, hostName, h) ==
    IF h = "recorded" THEN Append(eff, [e |-> "record", host |-> hostName, args |-> <<>>])
    ELSE eff

\* Mutant of sshArgs: the host name comes after the remote command.
sshArgs_hostLast(hostName, remoteCommand, tty) ==
    (IF configFile # <<>> THEN << <<"-", "F">>, configFile >> ELSE <<>>)
    \o (IF tty THEN << <<"-", "t">> >> ELSE <<>>)
    \o remoteCommand
    \o <<hostName>>

\* connectToHost, the argument vector of the ssh client.
sshArgs(hostName, remoteCommand, tty) ==
    (IF configFile # <<>> THEN << <<"-", "F">>, configFile >> ELSE <<>>)
    \o (IF tty THEN << <<"-", "t">> >> ELSE <<>>)
    \o <<hostName>>
    \o remoteCommand

\* What sshCmd.Run() can end with: nil, an ExitError of a process that exited
\* with a code, an ExitError of a process a signal ended, an ExitError whose
\* Sys() is no WaitStatus, or another error (ssh could not be started).
SshOutcomes ==
    { [kind |-> "ok", code |-> 0],
      [kind |-> "exited", code |-> 1],
      [kind |-> "exited", code |-> 255],
      [kind |-> "signaled", code |-> 0],
      [kind |-> "noStatus", code |-> 0],
      [kind |-> "notRun", code |-> 0] }

\* syscall.WaitStatus.ExitStatus: the exit code, -1 when the process did not exit.
ExitStatus(o) == IF o.kind = "exited" THEN o.code ELSE 0 - 1

\* Mutant of sshExit: every failure of the run ends with status 1.
sshExit_alwaysOne(o) ==
    IF o.kind = "ok" THEN Some(0) ELSE Some(1)

\* connectToHost, after sshCmd.Run(): the status the process ends with.
sshExit(o) ==
    IF o.kind = "ok" THEN Some(0)
    ELSE IF o.kind \in {"exited", "signaled"} THEN Some(ExitStatus(o))
    ELSE Some(1)

\* runInteractiveMode, the first load: fatal on a parse error, the add-host
\* prompt for zero hosts, else the TUI.
interactiveLoad(parsed) ==
    IF parsed.err # Null THEN [next |-> "fatal", status |-> Some(1), hosts |-> <<>>]
    ELSE IF Len(parsed.hosts) = 0 THEN [next |-> "prompt", status |-> Null, hosts |-> <<>>]
    ELSE [next |-> "started", status |-> Null, hosts |-> parsed.hosts]

\* fmt.Scanln(&response): the word read and whether it returned an error
\* (an empty line, or more than one word on the line).
ScanResults ==
    { [response |-> "y", err |-> FALSE], [response |-> "Y", err |-> FALSE],
      [response |-> "n", err |-> FALSE], [response |-> "yes", err |-> FALSE],
      [response |-> "", err |-> TRUE], [response |-> "y", err |-> TRUE] }

WantsAdd(scan) == ~scan.err /\ (scan.response = "y" \/ scan.response = "Y")

\* ui.RunAddForm: the user cancels or the form fails (the file stays as it
\* is), a new block is appended at the end of the file, or the file is left
\* unreadable.
AddFormOutcomes(f) ==
    { [file |-> f, err |-> FALSE],
      [file |-> f, err |-> TRUE],
      [file |-> [f EXCEPT !.lines = Append(@, HostLine(<< <<"a", "b">> >>))], err |-> FALSE],
      [file |-> [state |-> "denied", lines |-> <<>>], err |-> TRUE] }

\* runInteractiveMode, the answer to the prompt: the add form and a reload
\* for y or Y, exit 1 for every other answer and for a read error.
interactiveAnswer(scan) ==
    IF WantsAdd(scan) THEN [next |-> "reload", status |-> Null]
    ELSE [next |-> "exit", status |-> Some(1)]

\* Mutant of interactiveReload: an empty reloaded list does not stop the
\* process.
interactiveReload_ignoresEmpty(reloaded) ==
    IF reloaded.err # Null
    THEN [next |-> "exit", status |-> Some(1), hosts |-> <<>>]
    ELSE [next |-> "started", status |-> Null, hosts |-> reloaded.hosts]

\* runInteractiveMode, the reload after the add form.
interactiveReload(reloaded) ==
    IF reloaded.err # Null \/ Len(reloaded.hosts) = 0
    THEN [next |-> "exit", status |-> Some(1), hosts |-> <<>>]
    ELSE [next |-> "started", status |-> Null, hosts |-> reloaded.hosts]

\* The hosts the configured file parses to.
LoadHosts ==
    IF configFile # <<>> THEN ParseSSHConfigFile(configFile) ELSE ParseSSHConfig

\* ui.RunInteractiveMode(hosts, ...) is started.
TuiStart(hosts) ==
    [e |-> "tui", host |-> <<>>, args |-> [i \in 1..Len(hosts) |-> hosts[i].Name]]

RemoteCommands == { <<>>, << <<"l", "s">>, <<"-", "l">> >> }

(***************************************************************************)
(* The state machine: one command per process                              *)
(***************************************************************************)
Init ==
    /\ configFile \in Paths
    /\ file \in Files
    /\ op = "none"
    /\ arg = <<>>
    /\ out = <<>>
    /\ status = Null
    /\ completions = <<>>
    /\ directive = "none"
    /\ hostFound = FALSE
    /\ effects = <<>>

\* sshm info <hostname> [--pretty]
InfoCmd ==
    /\ op = "none"
    /\ \E name \in QueryNames, pretty \in BOOLEAN :
          LET r == runInfo(<<>>, name, configFile, pretty)
          IN  /\ op' = "info"
              /\ arg' = [name |-> name, pretty |-> pretty]
              /\ out' = r.out
              /\ status' = Some(r.code)
    /\ UNCHANGED <<configFile, file, completions, directive, hostFound, effects>>

\* shell completion of sshm info <TAB>
InfoComplete ==
    /\ op = "none"
    /\ \E in \in CompletionInputs :
          LET r == infoValidArgs(in.args, in.toComplete)
          IN  /\ op' = "infoComplete"
              /\ arg' = in
              /\ completions' = r.completions
              /\ directive' = r.directive
    /\ status' = Some(0)
    /\ UNCHANGED <<configFile, file, out, hostFound, effects>>

\* shell completion of sshm <TAB>
RootComplete ==
    /\ op = "none"
    /\ \E in \in CompletionInputs :
          LET r == rootValidArgs(in.args, in.toComplete)
          IN  /\ op' = "rootComplete"
              /\ arg' = in
              /\ completions' = r.completions
              /\ directive' = r.directive
    /\ status' = Some(0)
    /\ UNCHANGED <<configFile, file, out, hostFound, effects>>

\* sshm <host>: the existence check of connectToHost
ConnectCheck ==
    /\ op = "none"
    /\ \E name \in QueryNames :
          LET r == connectCheck(name)
          IN  /\ op' = "connect:" \o r.next
              /\ arg' = [name |-> name]
              /\ hostFound' = r.found
              /\ status' = r.status
    /\ UNCHANGED <<configFile, file, out, completions, directive, effects>>

\* connectToHost: connection history
ConnectHistory ==
    /\ op = "connect:checked"
    /\ \E h \in {"initFails", "recordFails", "recorded"} :
          /\ effects' = connectHistory(effects, arg.name, h)
          /\ arg' = [name |-> arg.name, history |-> h]
    /\ op' = "connect:history"
    /\ UNCHANGED <<configFile, file, out, status, completions, directive, hostFound>>

\* connectToHost: the ssh client is run and waited for
ConnectRun ==
    /\ op = "connect:history"
    /\ \E tty \in BOOLEAN, rc \in RemoteCommands, o \in SshOutcomes :
          /\ effects' = Append(effects, [e |-> "ssh", host |-> arg.name,
                                          args |-> sshArgs(arg.name, rc, tty)])
          /\ status' = sshExit(o)
          /\ arg' = [name |-> arg.name, history |-> arg.history, tty |-> tty,
                      remoteCommand |-> rc, outcome |-> o]
    /\ op' = "connect:done"
    /\ UNCHANGED <<configFile, file, out, completions, directive, hostFound>>

\* sshm: runInteractiveMode up to the prompt or the TUI
InteractiveLoad ==
    /\ op = "none"
    /\ LET r == interactiveLoad(LoadHosts)
       IN  /\ op' = "tui:" \o r.next
           /\ status' = r.status
           /\ effects' = IF r.next = "started" THEN Append(effects, TuiStart(r.hosts))
                          ELSE effects
    /\ arg' = [prompted |-> FALSE]
    /\ UNCHANGED <<configFile, file, out, completions, directive, hostFound>>

\* runInteractiveMode: the answer to the prompt and, for y or Y, the add form
InteractivePrompt ==
    /\ op = "tui:prompt"
    /\ \E scan \in ScanResults, added \in AddFormOutcomes(file) :
          LET r == interactiveAnswer(scan)
          IN  /\ op' = "tui:" \o r.next
              /\ status' = r.status
              /\ file' = IF r.next = "reload" THEN added.file ELSE file
              /\ arg' = [prompted |-> TRUE, scan |-> scan,
                          addErr |-> r.next = "reload" /\ added.err]
    /\ UNCHANGED <<configFile, out, completions, directive, hostFound, effects>>

\* runInteractiveMode: the reload after the add form, then exit 1 or the TUI
InteractiveReload ==
    /\ op = "tui:reload"
    /\ LET r == interactiveReload(LoadHosts)
       IN  /\ op' = "tui:" \o r.next
           /\ status' = r.status
           /\ effects' = IF r.next = "started" THEN Append(effects, TuiStart(r.hosts))
                          ELSE effects
    /\ UNCHANGED <<configFile, file, arg, out, completions, directive, hostFound>>

\* ui.RunInteractiveMode returns
TuiExit ==
    /\ op = "tui:started"
    /\ \E failed \in BOOLEAN : status' = Some(IF failed THEN 1 ELSE 0)
    /\ op' = "tui:done"
    /\ UNCHANGED <<configFile, file, arg, out, completions, directive, hostFound, effects>>

Next ==
    \/ InfoCmd \/ InfoComplete \/ RootComplete
    \/ ConnectCheck \/ ConnectHistory \/ ConnectRun
    \/ InteractiveLoad \/ InteractivePrompt \/ InteractiveReload \/ TuiExit

Spec == Init /\ [][Next]_vars

\* The same processes, one command family at a time.
NextInfo == InfoCmd
SpecInfo == Init /\ [][NextInfo]_vars

NextComplete == InfoComplete \/ RootComplete
SpecComplete == Init /\ [][NextComplete]_vars

NextConnect == ConnectCheck
SpecConnect == Init /\ [][NextConnect]_vars

\* The second family of files.
InitFlow ==
    /\ configFile \in Paths
    /\ file \in FlowFiles
    /\ op = "none"
    /\ arg = <<>>
    /\ out = <<>>
    /\ status = Null
    /\ completions = <<>>
    /\ directive = "none"
    /\ hostFound = FALSE
    /\ effects = <<>>

SpecInfoFlow == InitFlow /\ [][NextInfo]_vars

NextConnectFlow == ConnectCheck \/ ConnectHistory \/ ConnectRun
SpecConnectFlow == InitFlow /\ [][NextConnectFlow]_vars

NextInteractive == InteractiveLoad \/ InteractivePrompt \/ InteractiveReload \/ TuiExit
SpecInteractive == InitFlow /\ [][NextInteractive]_vars

(***************************************************************************)
(* Properties                                                              *)
(***************************************************************************)
RanInfo == op = "info"

\* The document the info command wrote, its error code and its result.
InfoDoc == out[Len(out)].doc
InfoErrCode == IF InfoDoc.error = Null THEN "" ELSE InfoDoc.error[1].code
InfoStatus == status[1]

\* The lines of a file that are Host declarations naming `name` literally,
\* read off the raw lines.
DeclaredAt(lines, name) ==
    { i \in 1..Len(lines) :
        /\ lines[i].kind = "kv" /\ IsHostKeyword(lines[i].keyword)
        /\ IsLiteral(name)
        /\ \E k \in 1..Len(lines[i].words) : lines[i].words[k] = name }

Readable == file.state = "ok"
Declared(name) == Readable /\ DeclaredAt(file.lines, name) # {}

\* The lookup the info command makes for a name.
Lookup(name) ==
    IF configFile # <<>> THEN GetSSHHostFromFile(name, configFile) ELSE GetSSHHost(name)

\* C1: the exit status returned by runInfo and the JSON it wrote agree:
\* 0 iff ok, 2 iff not ok with NOT_FOUND, 1 iff not ok with CONFIG_ERROR, and
\* no other status is returned.
C1_StatusAgreesWithJSON ==
    RanInfo =>
        /\ Len(out) = 1
        /\ InfoStatus \in {0, 1, 2}
        /\ (InfoStatus = 0) <=> InfoDoc.ok
        /\ (InfoStatus = 2) <=> (~InfoDoc.ok /\ InfoErrCode = "NOT_FOUND")
        /\ (InfoStatus = 1) <=> (~InfoDoc.ok /\ InfoErrCode = "CONFIG_ERROR")

C1_Witness ==
    RanInfo /\ InfoStatus = 1 /\ ~InfoDoc.ok /\ InfoErrCode = "CONFIG_ERROR"
    /\ InfoDoc.error[1].message = InvalidPortText

\* C2: every document the info command writes carries the schema
\* sshm.info.v1 and exactly one of result and error: result with ok=true,
\* error with ok=false.
C2_SchemaAndExactlyOne ==
    \A i \in 1..Len(out) :
        LET d == out[i].doc IN
        /\ d.schema = "sshm.info.v1"
        /\ (d.result # Null) # (d.error # Null)
        /\ d.ok => (d.result # Null /\ d.error = Null)
        /\ ~d.ok => (d.error # Null /\ d.result = Null)

C2_Witness ==
    RanInfo /\ Len(out) = 1 /\ InfoDoc.ok /\ InfoDoc.result # Null /\ InfoDoc.error = Null
    /\ arg.pretty

\* C3: the info command reports NOT_FOUND with status 2 exactly when the
\* lookup failed because the host has no literal declaration; every other
\* lookup failure is CONFIG_ERROR with status 1, whatever the message says.
C3_NotFoundOnlyForUndeclared ==
    RanInfo =>
        /\ (InfoErrCode = "NOT_FOUND" \/ InfoStatus = 2) <=> (Readable /\ ~Declared(arg.name))
        /\ ~Readable => (InfoErrCode = "CONFIG_ERROR" /\ InfoStatus = 1)
        /\ (Declared(arg.name) /\ ~InfoDoc.ok)
               => (InfoErrCode = "CONFIG_ERROR" /\ InfoStatus = 1)

\* A string that is a decimal integer: an optional sign and digits only.
IsDecimalInteger(s) ==
    LET body == IF s # <<>> /\ s[1] \in {"+", "-"} THEN Tail(s) ELSE s
    IN  body # <<>> /\ \A i \in 1..Len(body) : IsDigit(body[i])

\* The resolved Port value of the requested host, when the lookup succeeded.
ResolvedPort == Lookup(arg.name).host[1].Port

\* C4: a resolved Port that is non-empty and not a decimal integer makes the
\* info command fail with CONFIG_ERROR and status 1, never succeed with a
\* null or zero port; an absent or whitespace-only Port gives success with
\* port=null.
C4_BadPortIsConfigError ==
    (RanInfo /\ Declared(arg.name)) =>
        LET value == TrimSpace(ResolvedPort) IN
        /\ (value # <<>> /\ ~IsDecimalInteger(value))
              => /\ ~InfoDoc.ok
                 /\ InfoDoc.result = Null
                 /\ InfoErrCode = "CONFIG_ERROR"
                 /\ InfoStatus = 1
        /\ value = <<>>
              => /\ InfoDoc.ok
                 /\ InfoStatus = 0
                 /\ InfoDoc.result[1].target.port = Null

C4_Witness ==
    /\ RanInfo /\ Declared(arg.name)
    /\ ResolvedPort = <<"x">>
    /\ InfoStatus = 1 /\ InfoDoc.result = Null

\* Some Host line has a wildcard pattern that matches the name.
WildcardMatches(lines, name) ==
    \E i \in 1..Len(lines) :
        /\ lines[i].kind = "kv" /\ IsHostKeyword(lines[i].keyword)
        /\ \E k \in 1..Len(lines[i].words) :
              ~IsLiteral(lines[i].words[k]) /\ ~IsNegated(lines[i].words[k])
              /\ Glob(lines[i].words[k], name)

\* C5: in a loaded config, a name that no Host block declares literally is
\* not found, even when a wildcard block matches it: Get fails with
\* NotFoundError and the info command returns status 2 with NOT_FOUND and no
\* result.
C5_UndeclaredIsNotFound ==
    (RanInfo /\ Readable /\ ~Declared(arg.name)) =>
        LET got == Lookup(arg.name) IN
        /\ got.host = Null
        /\ got.err # Null
        /\ got.err[1].kind = "NotFoundError"
        /\ InfoStatus = 2
        /\ ~InfoDoc.ok
        /\ InfoErrCode = "NOT_FOUND"
        /\ InfoDoc.result = Null

C5_Witness ==
    /\ RanInfo /\ Readable /\ ~Declared(arg.name)
    /\ WildcardMatches(file.lines, arg.name)
    /\ InfoStatus = 2

RanConnect == op \in {"connect:fatal", "connect:exit", "connect:checked"}
Proceeds == op = "connect:checked"

\* sshm info <name> reports NOT_FOUND.
InfoReportsNotFound(name) == runInfo(<<>>, name, configFile, FALSE).code = 2

LookupNotFound(name) ==
    LET got == Lookup(name) IN got.err # Null /\ got.err[1].kind = "NotFoundError"

\* C6 as stated: for every config file and every name the quick existence
\* check is true iff the full lookup does not fail with not-found, and
\* sshm <name> proceeds exactly for the names sshm info does not report
\* NOT_FOUND for.
C6_QuickAgreesOnEveryFile ==
    RanConnect =>
        /\ hostFound <=> ~LookupNotFound(arg.name)
        /\ Proceeds <=> ~InfoReportsNotFound(arg.name)

\* C6, amended: for every readable config file and every name the quick
\* existence check is true iff the full lookup does not fail with
\* not-found, and sshm <name> proceeds exactly for the names sshm info does
\* not report NOT_FOUND for.
C6_QuickAgreesOnReadableFile ==
    (RanConnect /\ Readable) =>
        /\ hostFound <=> ~LookupNotFound(arg.name)
        /\ Proceeds <=> ~InfoReportsNotFound(arg.name)

C6_Witness ==
    /\ RanConnect /\ Readable /\ Proceeds /\ hostFound
    /\ Lookup(arg.name).err = Null
    /\ WildcardMatches(file.lines, arg.name)

\* The Host line owning line j: the nearest Host declaration above it, 0 if
\* there is none.
IsHostDecl(l) == l.kind = "kv" /\ IsHostKeyword(l.keyword) /\ l.words # <<>>

OwnerOf(lines, j) ==
    LET above == { i \in 1..(j - 1) : IsHostDecl(lines[i]) }
    IN  IF above = {} THEN 0 ELSE CHOOSE i \in above : \A k \in above : k <= i

\* The lines that set keyword kw for the name: occurrences of kw in blocks
\* that match the name.
SettingLines(lines, name, kw) ==
    { j \in 1..Len(lines) :
        /\ lines[j].kind = "kv" /\ lines[j].keyword = kw
        /\ OwnerOf(lines, j) # 0
        /\ BlockMatches([patterns |-> lines[OwnerOf(lines, j)].words], name) }

\* The value of the first of them in file order, "" when there is none.
FirstSetValue(lines, name, kw) ==
    LET js == SettingLines(lines, name, kw)
    IN  IF js = {} THEN <<>>
        ELSE JoinWords(lines[CHOOSE j \in js : \A k \in js : j <= k].words)

FieldOf ==
    [HostName |-> "Hostname", User |-> "User", Port |-> "Port",
     IdentityFile |-> "Identity", ProxyJump |-> "ProxyJump",
     ProxyCommand |-> "ProxyCommand", RemoteCommand |-> "RemoteCommand",
     RequestTTY |-> "RequestTTY"]

\* C7: first match wins: for every literal host name and every modelled
\* field the value Get returns is that of the first directive occurrence, in
\* file order, in a block that matches the name; a later matching block,
\* even the exact one, never overwrites it.
C7_FirstMatchWins ==
    (RanInfo /\ Readable /\ Declared(arg.name)) =>
        LET got == Lookup(arg.name) IN
        /\ got.err = Null
        /\ \A kw \in ModelledKeywords :
              got.host[1][FieldOf[kw]] = FirstSetValue(file.lines, arg.name, kw)

\* Host !Ab *b / Port 7 / Host ab / Port x: the wildcard block comes first
\* and the exact block sets the same field later.
C7_Witness ==
    /\ RanInfo /\ InfoStatus = 0 /\ arg.name = <<"a", "b">>
    /\ file.lines = << HostLine(<< <<"!", "A", "b">>, <<"*", "b">> >>),
                       DirLine("Port", << <<"7">> >>),
                       HostLine(<< <<"a", "b">> >>),
                       DirLine("Port", << <<"x">> >>) >>
    /\ InfoDoc.result[1].target.port = <<7>>

MinOf(S) == CHOOSE i \in S : \A k \in S : i <= k

\* C8: a literally declared name is found and its source line is the
\* 1-based line of its Host declaration, the first one when there are
\* several; the info command reports it as source.line, never 0, with a
\* non-empty source.file.
C8_SourceLineIsFirstDeclaration ==
    (RanInfo /\ Readable) =>
        LET got   == Lookup(arg.name)
            first == MinOf(DeclaredAt(file.lines, arg.name))
        IN  /\ Declared(arg.name) =>
                  /\ got.err = Null
                  /\ got.host[1].LineNumber = first
            /\ InfoDoc.ok =>
                  /\ Declared(arg.name)
                  /\ InfoDoc.result[1].source # Null
                  /\ InfoDoc.result[1].source[1].line = first
                  /\ InfoDoc.result[1].source[1].line # 0
                  /\ InfoDoc.result[1].source[1].file # <<>>

C8_Witness ==
    /\ RanInfo /\ InfoDoc.ok
    /\ Cardinality(DeclaredAt(file.lines, arg.name)) >= 2
    /\ InfoDoc.result[1].source[1].line = 2

RanComplete == op \in {"infoComplete", "rootComplete"}

\* Where a literal name is first declared: line and position in the line.
FirstPosition(lines, name) ==
    LET i == MinOf(DeclaredAt(lines, name))
        k == MinOf({ x \in 1..Len(lines[i].words) : lines[i].words[x] = name })
    IN  <<i, k>>

Before(p, q) == p[1] < q[1] \/ (p[1] = q[1] /\ p[2] < q[2])

\* The literal names declared in the lines.
LiteralNamesIn(lines) ==
    { w \in UNION { { lines[i].words[k] : k \in 1..Len(lines[i].words) } :
                    i \in { j \in 1..Len(lines) : IsHostDecl(lines[j]) } } :
        IsLiteral(w) }

MatchesPartial(name, partial) ==
    LET n == ToLower(name)
        q == ToLower(partial)
    IN  Len(q) <= Len(n) /\ \A i \in 1..Len(q) : n[i] = q[i]

\* C9: on a readable config, completion with no positional argument returns
\* exactly the literal host names whose lower-cased form starts with the
\* lower-cased partial argument, in registry order, each once; with a
\* positional argument it returns nothing; the directive is
\* ShellCompDirectiveNoFileComp in both cases.
C9_CompletionIsPrefixFilter ==
    (RanComplete /\ Readable) =>
        /\ directive = "ShellCompDirectiveNoFileComp"
        /\ arg.args # <<>> => completions = <<>>
        /\ arg.args = <<>> =>
              /\ { completions[i] : i \in 1..Len(completions) }
                    = { n \in LiteralNamesIn(file.lines) : MatchesPartial(n, arg.toComplete) }
              /\ \A i, j \in 1..Len(completions) :
                    i < j => Before(FirstPosition(file.lines, completions[i]),
                                    FirstPosition(file.lines, completions[j]))

C9_Witness ==
    /\ op = "infoComplete" /\ Readable /\ arg.args = <<>> /\ arg.toComplete = <<"A">>
    /\ completions = << <<"A", "b">>, <<"a", "b">> >>
    /\ Cardinality(DeclaredAt(file.lines, <<"a", "b">>)) >= 2
    /\ \E n \in LiteralNamesIn(file.lines) : ~MatchesPartial(n, arg.toComplete)

\* C10: when the config file does not exist or cannot be read, completion
\* with no positional argument returns an empty list and
\* ShellCompDirectiveNoFileComp, never the error directive.
C10_UnreadableConfigCompletesEmpty ==
    (RanComplete /\ ~Readable /\ arg.args = <<>>) =>
        /\ completions = <<>>
        /\ directive = "ShellCompDirectiveNoFileComp"
        /\ directive # "ShellCompDirectiveError"

(***************************************************************************)
(* connectToHost after the existence check                                 *)
(***************************************************************************)

\* What the existence check of connectToHost returns for a name.
QuickCheck(name) ==
    IF configFile # <<>> THEN QuickHostExistsInFile(name, configFile)
    ELSE QuickHostExists(name)

CheckPassed(name) == LET q == QuickCheck(name) IN q.err = Null /\ q.found

ConnectStopped == op \in {"connect:fatal", "connect:exit"}
ConnectWentOn == op \in {"connect:checked", "connect:history", "connect:done"}

EffectsOf(kind) == { i \in 1..Len(effects) : effects[i].e = kind }

\* C11: in connectToHost the existence check comes first; a history record
\* and an ssh run exist only after the check returned true without error
\* (the record, if any, before the ssh run, both for the checked name);
\* when the check returned false or an error the process has ended with a
\* non-zero status and neither a history record nor an ssh run exists.
C11_CheckGatesHistoryAndSsh ==
    /\ op \in {"none", "connect:fatal", "connect:exit", "connect:checked"} => effects = <<>>
    /\ ConnectStopped =>
          /\ ~CheckPassed(arg.name)
          /\ status # Null /\ status[1] # 0
    /\ ConnectWentOn => CheckPassed(arg.name) /\ hostFound
    /\ effects # <<>> =>
          /\ op \in {"connect:history", "connect:done"}
          /\ \A i \in 1..Len(effects) : effects[i].host = arg.name
          /\ \A i \in EffectsOf("record"), j \in EffectsOf("ssh") : i < j
    /\ op = "connect:done" => EffectsOf("ssh") = {Len(effects)}

C11_Witness ==
    /\ op = "connect:done"
    /\ Len(effects) = 2 /\ effects[1].e = "record" /\ effects[2].e = "ssh"
    /\ CheckPassed(arg.name)
    /\ configFile # <<>>

\* The argument vector the ssh client was run with.
SshRan == op = "connect:done"
SshArgv == effects[Len(effects)].args

\* C12: the argument vector of the ssh client is, in this order, -F and the
\* config path exactly when an explicit config path is set, then -t exactly
\* when a TTY is forced, then the host name once, then the remote command
\* tokens in their order, and nothing else.
C12_SshArgvShape ==
    SshRan =>
        LET a == SshArgv
            nF == IF configFile # <<>> THEN 2 ELSE 0
            nT == IF arg.tty THEN 1 ELSE 0
            h == nF + nT + 1
            rc == arg.remoteCommand
        IN  /\ Len(a) = h + Len(rc)
            /\ configFile # <<>> => a[1] = <<"-", "F">> /\ a[2] = configFile
            /\ arg.tty => a[nF + 1] = <<"-", "t">>
            /\ a[h] = arg.name
            /\ \A k \in 1..Len(rc) : a[h + k] = rc[k]
            /\ (\E i \in 1..h : a[i] = <<"-", "F">>) <=> configFile # <<>>
            /\ (\E i \in 1..h : a[i] = <<"-", "t">>) <=> arg.tty
            /\ Cardinality({ i \in 1..h : a[i] = arg.name }) = 1

C12_Witness ==
    /\ SshRan
    /\ configFile # <<>> /\ arg.tty /\ arg.remoteCommand # <<>>
    /\ SshArgv = << <<"-", "F">>, configFile, <<"-", "t">>, arg.name >> \o arg.remoteCommand

(***************************************************************************)
(* Optional string fields of the info result                               *)
(***************************************************************************)

OptionalStringKeywords == ModelledKeywords \ {"Port"}

\* The field of the result document that reports a keyword.
ResultField(res, kw) ==
    CASE kw = "HostName"      -> res.target.hostname
      [] kw = "User"          -> res.target.user
      [] kw = "IdentityFile"  -> res.identity_file
      [] kw = "ProxyJump"     -> res.proxy_jump
      [] kw = "ProxyCommand"  -> res.proxy_command
      [] kw = "RemoteCommand" -> res.remote_command
      [] kw = "RequestTTY"    -> res.request_tty

\* C13: in a successful info result each optional string field is null
\* exactly when no matching block sets it; a field that is set carries its
\* value, so a field set to the empty value is not null.  (No line of the
\* modelled files sets an extra option, so options is never set.)
C13_NullIffUnset ==
    (RanInfo /\ Readable /\ InfoDoc.result # Null) =>
        LET res == InfoDoc.result[1] IN
        /\ \A kw \in OptionalStringKeywords :
              LET js == SettingLines(file.lines, arg.name, kw)
                  v == ResultField(res, kw)
              IN  /\ v = Null <=> js = {}
                  /\ js # {} => v = Some(FirstSetValue(file.lines, arg.name, kw))
        /\ res.options = Null

(***************************************************************************)
(* runInteractiveMode                                                      *)
(***************************************************************************)

TuiStarted == op \in {"tui:started", "tui:done"}
AnsweredYes == arg.prompted /\ ~arg.scan.err /\ arg.scan.response \in {"y", "Y"}

\* The config as it is now parses without error to at least one host.
HostsAvailable == LET p == LoadHosts IN p.err = Null /\ Len(p.hosts) >= 1

\* C14: runInteractiveMode never starts the TUI with an empty host list.
\* When the first load finds zero hosts the TUI starts only after the answer
\* y or Y and a reload that succeeded with at least one host; every other
\* zero-host run exits with status 1 without a TUI.  A parse error of the
\* first load is fatal and never starts the TUI.
C14_TuiNeverStartsEmpty ==
    /\ \A i \in 1..Len(effects) : effects[i].e = "tui" /\ effects[i].args # <<>>
    /\ TuiStarted <=> Len(effects) = 1
    /\ TuiStarted =>
          /\ HostsAvailable
          /\ Len(effects[1].args) = Cardinality(LiteralNamesIn(file.lines))
          /\ arg.prompted => AnsweredYes
    /\ op = "tui:prompt" => LoadHosts.err = Null /\ LoadHosts.hosts = <<>>
    /\ op = "tui:reload" => AnsweredYes
    /\ op = "tui:exit" =>
          /\ arg.prompted /\ status = Some(1) /\ effects = <<>>
          /\ ~(AnsweredYes /\ HostsAvailable)
    /\ op = "tui:fatal" =>
          /\ ~arg.prompted /\ LoadHosts.err # Null
          /\ status # Null /\ status[1] # 0 /\ effects = <<>>
    /\ (op # "none" /\ ~arg.prompted /\ LoadHosts.err # Null) => op = "tui:fatal"

C14_Witness ==
    /\ op = "tui:started" /\ arg.prompted /\ arg.scan.response = "Y"
    /\ effects = << [e |-> "tui", host |-> <<>>, args |-> << <<"a", "b">> >>] >>

(***************************************************************************)
(* The exit status after the ssh run                                       *)
(***************************************************************************)

\* C15: after the ssh client has been run, sshm ends with 0 when ssh exited
\* with 0, with exactly s when ssh exited with a non-zero status s, and with
\* 1 when ssh could not be run or its status cannot be obtained.  Whether
\* the history manager could be initialised and the connection recorded
\* neither keeps ssh from being run nor changes that status.
C15_ExitStatusFollowsSsh ==
    /\ op = "connect:history" => ENABLED ConnectRun
    /\ SshRan =>
          LET o == arg.outcome IN
          /\ Cardinality(EffectsOf("ssh")) = 1
          /\ o.kind = "ok" => status = Some(0)
          /\ (o.kind = "exited" /\ o.code # 0) => status = Some(o.code)
          /\ o.kind \in {"notRun", "noStatus"} => status = Some(1)
          /\ EffectsOf("record") # {} <=> arg.history = "recorded"

C15_Witness ==
    /\ SshRan
    /\ arg.history = "initFails" /\ effects[1].e = "ssh"
    /\ arg.outcome.kind = "exited" /\ status = Some(255)

====
